---- MODULE Spec2Model ----
(***************************************************************************)
(* Model of the circonus-agent process group (Agent.New/Start/Stop) and of *)
(* the reverse connection supervisor (reverse.New, Reverse.Start).         *)
(*                                                                         *)
(* The resolver (check.Check) and connection.Connection are collaborators  *)
(* whose results are inputs: every call draws its result from the set of   *)
(* results its signature allows.                                           *)
(*                                                                         *)
(* A second specification, DiskSpec, models the wmi disk collector         *)
(* (Disk.Collect) called from several goroutines at once.                  *)
(***************************************************************************)
EXTENDS Integers, FiniteSets, Sequences, TLC

\* ---------------------------------------------------------------- bounds
MaxTicks == 2         \* the clock advances at most MaxTicks times
MaxCN == 2            \* broker CNs are 1..MaxCN
MaxCallers == 2       \* goroutines calling Disk.Collect
MaxClock == 3         \* the collector's clock runs from 0 to MaxClock
MaxTTL == 2           \* run_ttl settings are -1..MaxTTL

\* ------------------------------------------------------- program constants
RefreshInterval == 5  \* 5*time.Minute

\* The clock (in minutes) runs over 0..MaxTime in steps of RefreshInterval.
MaxTime == MaxTicks * RefreshInterval

CNs == 1..MaxCN
\* A nil *check.ReverseConfigs: a value that is no map over CNs.
Nil == [c \in {0} |-> 0]

\* check.ReverseConfigs: map from CN to BrokerConfig; a BrokerConfig is
\* identified by its CN field.  r.configs is a pointer to such a map, or nil.
ReverseConfigs == {[c \in d |-> c] : d \in SUBSET CNs}
ConfigsPtr == ReverseConfigs \cup {Nil}
NumConfigs(m) == Cardinality(DOMAIN m)

\* The tasks Agent.Start hands to the errgroup besides the supervisor.
Siblings == {"signals", "statsd", "listen"}

\* What rc.Start can return: nil, an error that is not an OpError, or an
\* OpError with its two flags.
OpErrors == [kind : {"OpError"}, Fatal : BOOLEAN, RefreshCheck : BOOLEAN]
ConnResults ==
    [kind : {"nil", "error"}, Fatal : {FALSE}, RefreshCheck : {FALSE}] \cup OpErrors
IsOpError(e) == e.kind = "OpError"
\* The name under which a result of rc.Start is recorded in lastResp.
ConnResp(e) ==
    IF ~IsOpError(e) THEN (IF e.kind = "nil" THEN "ConnNil" ELSE "ConnError")
    ELSE IF e.Fatal THEN (IF e.RefreshCheck THEN "ConnFatalRefresh" ELSE "ConnFatal")
    ELSE IF e.RefreshCheck THEN "ConnRefresh" ELSE "ConnRetry"

\* What FindPrimaryBrokerInstance can return: a CN, ErrNoOwnerFound, or
\* another error.
FindResults ==
    [kind : {"cn"}, cn : CNs] \cup [kind : {"NoOwner", "err"}, cn : {0}]

\* Errors Reverse.Start returns, by return site.
StartErrors == {"ErrNilConfigs", "ErrZeroConfigs", "ErrRefresh",
                "ErrGetConfigs", "ErrFindPrimary", "ErrConnNew"}

VARIABLES
    \* Agent
    agentPc,        \* "new" | "wait" | "returned"   (Agent.Start position)
    agentResult,    \* what Agent.Start returned
    tasks,          \* sibling task -> "idle" | "running" | "nil" | "err"
    groupErr,       \* errgroup's first error: "none" or the task it came from
    ctxCancelled,   \* groupCancel() was called (parent of groupCtx)
    gctxCancelled,  \* the errgroup cancelled groupCtx
    \* Reverse
    enabled,
    configs,
    pc,             \* position of Reverse.Start
    result,         \* "none" | "nil" | an element of StartErrors
    lastRefresh,
    refreshCheck,
    rctxCancelled,  \* cancel() of rctx was called
    primaryCN,
    cfg,            \* the BrokerConfig copy handed to connection.New
    running,        \* number of rc.Start calls that have not returned
    \* environment and history
    now,            \* the clock
    lastResp,       \* result of the latest resolver/connection call
    refreshedAt,    \* time of the latest refresh (or of supervisor start)
    refreshed,      \* this iteration reloaded the configs
    owed,           \* RefreshReverseConfig calls made in the first iteration
                    \* after rc.Start returned a non-fatal OpError with
                    \* RefreshCheck set; -1 outside such an iteration
    \* wmi disk collector
    disk,           \* the Disk collector c: its wmicommon fields and options
    mu,             \* holder of c's mutex, 0 when unlocked
    call            \* caller -> position, locals and history of its
                    \* latest Disk.Collect call

agentVars == <<agentPc, agentResult, tasks, groupErr, ctxCancelled, gctxCancelled>>
revVars == <<enabled, configs, pc, result, lastRefresh, refreshCheck,
             rctxCancelled, primaryCN, cfg, running>>
histVars == <<now, lastResp, refreshedAt, refreshed, owed>>
vars == <<agentVars, revVars, histVars>>
diskVars == <<disk, mu, call>>

\* groupCtx is done when the errgroup cancelled it or its parent was cancelled.
GroupCtxDetached == gctxCancelled
GroupCtxDone == gctxCancelled \/ ctxCancelled
\* rctx is done when cancel() was called or its parent groupCtx is done.
RctxDetached == rctxCancelled
RctxNeverDone == FALSE
RctxDone == rctxCancelled \/ GroupCtxDone

\* ------------------------------------------------- wmi disk collector data
Callers == 1..MaxCallers
\* The zero time.Time of a collector that never ran.
ZeroTime == -1
Clock == 0..MaxClock
RunTTLs == -1..MaxTTL
DiskTypes == {"logical", "physical"}
CollectResults == {"none", "nil", "ErrTTLNotExpired", "ErrAlreadyRunning",
                   "ErrLogicalQuery", "ErrPhysicalQuery"}

\* NewDiskCollector: a collector that has not run, with the logical_disks,
\* physical_disks and run_ttl options of its configuration file.
NewDisk(ttl, lg, ph) ==
    [running |-> FALSE, lastStart |-> ZeroTime, lastEnd |-> ZeroTime,
     lastMetrics |-> {}, lastError |-> "none",
     runTTL |-> ttl, logical |-> lg, physical |-> ph]
\* NewDiskCollector("") : the defaults, both disk types and no run_ttl.
DefaultDisk == NewDisk(0, TRUE, TRUE)

\* A goroutine that has not called Collect.  metrics and err are locals of
\* the call; ret is what it returned; queries, marked and statusCalls
\* record the WMI queries it issued, whether it set c.running, and its
\* setStatus calls.
NoCall ==
    [pc |-> "idle", ret |-> "none", metrics |-> {}, err |-> "nil",
     queries |-> {}, marked |-> FALSE, statusCalls |-> 0]

\* ------------------------------------------------------------------ Init
\* State after agent.New returned: reverse.New read the enabled flag and,
\* when enabled, loaded r.configs from GetReverseConfigs.
Init ==
    /\ agentPc = "new"
    /\ agentResult = "none"
    /\ tasks = [t \in Siblings |-> "idle"]
    /\ groupErr = "none"
    /\ ctxCancelled = FALSE
    /\ gctxCancelled = FALSE
    /\ enabled \in BOOLEAN
    /\ configs \in (IF enabled THEN ConfigsPtr ELSE {Nil})
    /\ pc = "idle"
    /\ result = "none"
    /\ lastRefresh = 0
    /\ refreshCheck = FALSE
    /\ rctxCancelled = FALSE
    /\ primaryCN = 0
    /\ cfg = 0
    /\ running = 0
    /\ now = 0
    /\ lastResp = "none"
    /\ refreshedAt = 0
    /\ refreshed = FALSE
    /\ owed = -1
    /\ disk = DefaultDisk
    /\ mu = 0
    /\ call = [i \in Callers |-> NoCall]

\* ------------------------------------------------------------- errgroup
\* errgroup.Group.Go's wrapper around a task: the first non-nil error is
\* kept and cancels the group context.
GroupDoneNoCancel(task, err) ==
    IF err /= "nil" /\ groupErr = "none"
    THEN groupErr' = task /\ UNCHANGED gctxCancelled
    ELSE UNCHANGED <<groupErr, gctxCancelled>>
GroupDone(task, err) ==
    IF err /= "nil" /\ groupErr = "none"
    THEN groupErr' = task /\ gctxCancelled' = TRUE
    ELSE UNCHANGED <<groupErr, gctxCancelled>>

\* ---------------------------------------------------------------- Agent
\* Agent.Start: the four group.Go calls; Start then blocks in group.Wait.
AgentStart ==
    /\ agentPc = "new"
    /\ agentPc' = "wait"
    /\ tasks' = [t \in Siblings |-> "running"]
    /\ pc' = "start"
    /\ UNCHANGED <<agentResult, groupErr, ctxCancelled, gctxCancelled>>
    /\ UNCHANGED <<enabled, configs, result, lastRefresh, refreshCheck,
                   rctxCancelled, primaryCN, cfg, running>>
    /\ UNCHANGED histVars

\* A sibling task (handleSignals, statsdServer.Start, listenServer.Start)
\* returns nil or an error.
SiblingReturnOf(t) ==
    \E err \in {"nil", "err"} :
        /\ tasks[t] = "running"
        /\ tasks' = [tasks EXCEPT ![t] = err]
        /\ GroupDone(t, err)
        /\ UNCHANGED <<agentPc, agentResult, ctxCancelled>>
        /\ UNCHANGED <<revVars, histVars>>
SiblingReturn == \E t \in Siblings : SiblingReturnOf(t)

\* group.Wait returns once every task has returned; it cancels the group
\* context and hands back the first error.
AgentWait ==
    /\ agentPc = "wait"
    /\ \A t \in Siblings : tasks[t] \in {"nil", "err"}
    /\ pc = "done"
    /\ agentPc' = "returned"
    /\ agentResult' = groupErr
    /\ gctxCancelled' = TRUE
    /\ UNCHANGED <<tasks, groupErr, ctxCancelled>>
    /\ UNCHANGED <<revVars, histVars>>

\* Agent.Stop: groupCancel().
AgentStop ==
    /\ ~ctxCancelled
    /\ ctxCancelled' = TRUE
    /\ UNCHANGED <<agentPc, agentResult, tasks, groupErr, gctxCancelled>>
    /\ UNCHANGED <<revVars, histVars>>

\* ------------------------------------------------------- Reverse.Start
\* A return of Reverse.Start after rctx was created: the deferred cancel()
\* runs, the locals of the iteration (primaryCN, cfg) go out of scope and
\* the errgroup sees the returned value.
Return(err) ==
    /\ pc' = "done"
    /\ result' = err
    /\ rctxCancelled' = TRUE
    /\ primaryCN' = 0
    /\ cfg' = 0
    /\ owed' = -1
    /\ GroupDone("reverse", err)

\* if !r.enabled
NeverDisabled == FALSE
Disabled == ~enabled

\* if len(*r.configs) == 0
NeverZeroConfigs == FALSE
ZeroConfigs == NumConfigs(configs) = 0

\* Entry of Reverse.Start up to the loop.
ReverseStart ==
    /\ pc = "start"
    /\ IF Disabled
       THEN /\ pc' = "done" /\ result' = "nil"
            /\ GroupDone("reverse", "nil")
            /\ UNCHANGED <<lastRefresh, refreshedAt>>
       ELSE IF configs = Nil
       THEN /\ pc' = "done" /\ result' = "ErrNilConfigs"
            /\ GroupDone("reverse", "ErrNilConfigs")
            /\ UNCHANGED <<lastRefresh, refreshedAt>>
       ELSE IF ZeroConfigs
       THEN /\ pc' = "done" /\ result' = "ErrZeroConfigs"
            /\ GroupDone("reverse", "ErrZeroConfigs")
            /\ UNCHANGED <<lastRefresh, refreshedAt>>
       ELSE /\ pc' = "select" /\ result' = result
            /\ lastRefresh' = now
            /\ refreshedAt' = now
            /\ UNCHANGED <<groupErr, gctxCancelled>>
    /\ UNCHANGED <<agentPc, agentResult, tasks, ctxCancelled>>
    /\ UNCHANGED <<enabled, configs, refreshCheck, rctxCancelled, primaryCN,
                   cfg, running>>
    /\ UNCHANGED <<now, lastResp, refreshed, owed>>

\* Top of the loop: the select on rctx.Done(), then the refresh-interval
\* test and the branch on refreshCheck.
LoopTop ==
    /\ pc = "select"
    /\ IF RctxDone
       THEN /\ Return("nil")
            /\ UNCHANGED <<refreshCheck, refreshed>>
       ELSE /\ refreshCheck' = (refreshCheck \/ now - lastRefresh > RefreshInterval)
            /\ pc' = IF refreshCheck' THEN "refresh" ELSE "find"
            /\ refreshed' = FALSE
            /\ UNCHANGED <<result, rctxCancelled, groupErr, gctxCancelled,
                           primaryCN, cfg, owed>>
    /\ UNCHANGED <<agentPc, agentResult, tasks, ctxCancelled>>
    /\ UNCHANGED <<enabled, configs, lastRefresh, running>>
    /\ UNCHANGED <<now, lastResp, refreshedAt>>

\* RefreshReverseConfig failed: cancel() and return err.
OnRefreshErrIgnored ==
    /\ pc' = "getcfgs"
    /\ UNCHANGED <<result, rctxCancelled, groupErr, gctxCancelled, primaryCN, cfg,
                   owed>>
OnRefreshErr == Return("ErrRefresh")

\* r.chk.RefreshReverseConfig()
Refresh ==
    /\ pc = "refresh"
    /\ \E ok \in BOOLEAN :
        IF ok
        THEN /\ pc' = "getcfgs"
             /\ lastResp' = "RefreshOk"
             /\ refreshedAt' = now
             /\ owed' = (IF owed >= 0 THEN owed + 1 ELSE owed)
             /\ UNCHANGED <<result, rctxCancelled, groupErr, gctxCancelled,
                            primaryCN, cfg>>
        ELSE /\ OnRefreshErr
             /\ lastResp' = "RefreshErr"
             /\ UNCHANGED refreshedAt
    /\ UNCHANGED <<agentPc, agentResult, tasks, ctxCancelled>>
    /\ UNCHANGED <<enabled, configs, lastRefresh, refreshCheck, running>>
    /\ UNCHANGED <<now, refreshed>>

\* r.chk.GetReverseConfigs() after a refresh
GetConfigs ==
    /\ pc = "getcfgs"
    /\ \E ok \in BOOLEAN, r \in ConfigsPtr :
        IF ~ok
        THEN /\ Return("ErrGetConfigs")
             /\ lastResp' = "GetConfigsErr"
             /\ UNCHANGED <<configs, refreshCheck, refreshed>>
        ELSE /\ configs' = r
             /\ refreshCheck' = FALSE
             /\ refreshed' = TRUE
             /\ pc' = "find"
             /\ lastResp' = "GetConfigsOk"
             /\ UNCHANGED <<result, rctxCancelled, groupErr, gctxCancelled,
                            primaryCN, cfg, owed>>
    /\ UNCHANGED <<agentPc, agentResult, tasks, ctxCancelled>>
    /\ UNCHANGED <<enabled, lastRefresh, running>>
    /\ UNCHANGED <<now, refreshedAt>>

\* The error is a *check.ErrNoOwnerFound: flag a refresh and continue.
OnNoOwnerNoFlag ==
    /\ pc' = "select"
    /\ owed' = -1
    /\ UNCHANGED <<refreshCheck, primaryCN, cfg, result, rctxCancelled, groupErr,
                   gctxCancelled>>
OnNoOwner ==
    /\ refreshCheck' = TRUE
    /\ pc' = "select"
    /\ owed' = -1
    /\ UNCHANGED <<primaryCN, cfg, result, rctxCancelled, groupErr, gctxCancelled>>

\* r.chk.FindPrimaryBrokerInstance(r.configs)
FindPrimary ==
    /\ pc = "find"
    /\ \E r \in FindResults :
        IF r.kind = "NoOwner"
        THEN /\ OnNoOwner
             /\ lastResp' = "NoOwner"
        ELSE IF r.kind = "err"
        THEN /\ Return("ErrFindPrimary")
             /\ lastResp' = "FindPrimaryErr"
             /\ UNCHANGED refreshCheck
        ELSE /\ primaryCN' = r.cn
             /\ pc' = "lookup"
             /\ lastResp' = "Primary"
             /\ UNCHANGED <<cfg, refreshCheck, result, rctxCancelled, groupErr,
                            gctxCancelled, owed>>
    /\ UNCHANGED <<agentPc, agentResult, tasks, ctxCancelled>>
    /\ UNCHANGED <<enabled, configs, lastRefresh, running>>
    /\ UNCHANGED <<now, refreshedAt, refreshed>>

\* The primary CN has no entry in r.configs: flag a refresh and continue.
OnMissingCNNoFlag ==
    /\ pc' = "select"
    /\ primaryCN' = 0
    /\ owed' = -1
    /\ UNCHANGED <<refreshCheck, cfg, result, rctxCancelled, groupErr, gctxCancelled>>
OnMissingCNFatal ==
    IF refreshed
    THEN Return("ErrFindPrimary") /\ UNCHANGED refreshCheck
    ELSE /\ refreshCheck' = TRUE
         /\ pc' = "select"
         /\ primaryCN' = 0
         /\ owed' = -1
         /\ UNCHANGED <<cfg, result, rctxCancelled, groupErr, gctxCancelled>>
OnMissingCN ==
    /\ refreshCheck' = TRUE
    /\ pc' = "select"
    /\ primaryCN' = 0
    /\ owed' = -1
    /\ UNCHANGED <<cfg, result, rctxCancelled, groupErr, gctxCancelled>>

\* (*r.configs)[cn]
EntryOfAnyCN(cn) == configs[CHOOSE c \in DOMAIN configs : TRUE]
Entry(cn) == configs[cn]

\* cfg, ok := (*r.configs)[primaryCN]; a nil r.configs panics.
Lookup ==
    /\ pc = "lookup"
    /\ IF configs = Nil
       THEN /\ pc' = "panic"
            /\ UNCHANGED <<primaryCN, cfg, refreshCheck, result, rctxCancelled,
                           groupErr, gctxCancelled, owed>>
       ELSE IF primaryCN \notin DOMAIN configs
       THEN OnMissingCN
       ELSE /\ cfg' = Entry(primaryCN)
            /\ pc' = "new"
            /\ UNCHANGED <<primaryCN, refreshCheck, result, rctxCancelled,
                           groupErr, gctxCancelled, owed>>
    /\ UNCHANGED <<agentPc, agentResult, tasks, ctxCancelled>>
    /\ UNCHANGED <<enabled, configs, lastRefresh, running>>
    /\ UNCHANGED <<now, lastResp, refreshedAt, refreshed>>

\* connection.New(r.logger, r.agentAddress, &cfg)
ConnNew ==
    /\ pc = "new"
    /\ \E ok \in BOOLEAN :
        IF ok
        THEN /\ pc' = "go"
             /\ lastResp' = "ConnNewOk"
             /\ UNCHANGED <<result, rctxCancelled, groupErr, gctxCancelled,
                            primaryCN, cfg, owed>>
        ELSE /\ Return("ErrConnNew")
             /\ lastResp' = "ConnNewErr"
    /\ UNCHANGED <<agentPc, agentResult, tasks, ctxCancelled>>
    /\ UNCHANGED <<enabled, configs, lastRefresh, refreshCheck, running>>
    /\ UNCHANGED <<now, refreshedAt, refreshed>>

\* wg.Add(1); go func() { rc.Start(rctx) ... }()
GoConn ==
    /\ pc = "go"
    /\ running' = running + 1
    /\ pc' = "wait"
    /\ lastResp' = "ConnStarted"
    /\ owed' = -1
    /\ UNCHANGED agentVars
    /\ UNCHANGED <<enabled, configs, result, lastRefresh, refreshCheck,
                   rctxCancelled, primaryCN, cfg>>
    /\ UNCHANGED <<now, refreshedAt, refreshed>>

\* if cerr.Fatal { cancel() }
CancelsUnlessRefresh(err) == IsOpError(err) /\ err.Fatal /\ ~err.RefreshCheck
Cancels(err) == IsOpError(err) /\ err.Fatal

\* else if cerr.RefreshCheck { refreshCheck = true }
SetsRefreshNever(err) == FALSE
SetsRefreshOnAnyError(err) == err.kind /= "nil" /\ ~Cancels(err)
SetsRefresh(err) == IsOpError(err) /\ ~err.Fatal /\ err.RefreshCheck

\* The goroutine: rc.Start(rctx) returns, the OpError is classified,
\* wg.Done().
ConnReturn ==
    /\ running > 0
    /\ \E err \in ConnResults :
        /\ rctxCancelled' = (rctxCancelled \/ Cancels(err))
        /\ refreshCheck' = (refreshCheck \/ SetsRefresh(err))
        /\ lastResp' = ConnResp(err)
        /\ owed' = (IF ConnResp(err) = "ConnRefresh" THEN 0 ELSE -1)
    /\ running' = running - 1
    /\ UNCHANGED agentVars
    /\ UNCHANGED <<enabled, configs, pc, result, lastRefresh, primaryCN, cfg>>
    /\ UNCHANGED <<now, refreshedAt, refreshed>>

\* wg.Wait() blocks until the goroutine called wg.Done().
WgNeverBlocks == TRUE
WgDone == running = 0

\* wg.Wait() returns when the goroutine called wg.Done(); the iteration
\* ends and its locals (primaryCN, cfg, rc) go out of scope.
WgWait ==
    /\ pc = "wait"
    /\ WgDone
    /\ pc' = "select"
    /\ primaryCN' = 0
    /\ cfg' = 0
    /\ UNCHANGED agentVars
    /\ UNCHANGED <<enabled, configs, result, lastRefresh, refreshCheck,
                   rctxCancelled, running>>
    /\ UNCHANGED histVars

\* ---------------------------------------------------------------- clock
\* Time passes.  Only differences to the clock value read at the entry of
\* Reverse.Start matter, and the clock is read again at the top of each
\* iteration only, so it is advanced where it is read next.  The clock is
\* compared with RefreshInterval only, so it advances in steps of that
\* interval: elapsed times of 0, RefreshInterval and 2 * RefreshInterval
\* stand for less than, exactly and more than the interval.
Tick ==
    /\ now < MaxTime
    /\ pc \in {"select", "refresh"}
    /\ now' = now + RefreshInterval
    /\ UNCHANGED <<agentVars, revVars>>
    /\ UNCHANGED <<lastResp, refreshedAt, refreshed, owed>>

\* An unrecovered panic ends the process: nothing runs after it.
Next ==
    /\ pc /= "panic"
    /\ \/ AgentStart
       \/ SiblingReturn
       \/ AgentWait
       \/ AgentStop
       \/ ReverseStart
       \/ LoopTop
       \/ Refresh
       \/ GetConfigs
       \/ FindPrimary
       \/ Lookup
       \/ ConnNew
       \/ GoConn
       \/ ConnReturn
       \/ WgWait
       \/ Tick
    /\ UNCHANGED diskVars

Spec == Init /\ [][Next]_vars

\* The steps of Reverse.Start itself.
Supervisor ==
    \/ ReverseStart \/ LoopTop \/ Refresh \/ GetConfigs \/ FindPrimary
    \/ Lookup \/ ConnNew \/ GoConn \/ WgWait

\* Scheduling: the goroutine of Reverse.Start keeps running and its resolver
\* calls return; rc.Start returns once rctx is done; a sibling task returns
\* once groupCtx is done; group.Wait returns once every task has returned.
\* Nothing runs after a panic.
FairSpec ==
    /\ Spec
    /\ WF_vars(pc /= "panic" /\ Supervisor)
    /\ WF_vars(pc /= "panic" /\ RctxDone /\ ConnReturn)
    /\ \A t \in Siblings :
          WF_vars(pc /= "panic" /\ GroupCtxDone /\ SiblingReturnOf(t))
    /\ WF_vars(pc /= "panic" /\ AgentWait)

\* ------------------------------------------------------- wmi disk collector
\* Everything of the agent and the supervisor, which Disk.Collect leaves
\* alone.
supVars == <<agentVars, revVars, lastResp, refreshedAt, refreshed, owed>>

\* time.Since(t).  The time since the zero time exceeds every run_ttl.
Since(t) == IF t = ZeroTime THEN MaxClock + MaxTTL + 1 ELSE now - t

\* The run_ttl test of Collect.
TTLSinceStart == disk.runTTL > 0 /\ Since(disk.lastStart) < disk.runTTL
TTLNotExpired == disk.runTTL > 0 /\ Since(disk.lastEnd) < disk.runTTL

\* The running guard of Collect.
NeverRunning == FALSE
AlreadyRunning == disk.running

\* Collect returns at once, unlocking c.
ReturnLocked(i, e) ==
    /\ call' = [call EXCEPT ![i].pc = "done", ![i].ret = e]
    /\ mu' = 0
    /\ UNCHANGED disk

\* metrics := cgm.Metrics{}; c.Lock()
CollectLock(i) ==
    /\ call[i].pc \in {"idle", "done"}
    /\ mu = 0
    /\ mu' = i
    /\ call' = [call EXCEPT ![i] = [NoCall EXCEPT !.pc = "ttl"]]
    /\ UNCHANGED <<disk, now, supVars>>

\* if c.runTTL > 0 { if time.Since(c.lastEnd) < c.runTTL { ... } }
CheckTTL(i) ==
    /\ call[i].pc = "ttl"
    /\ IF TTLNotExpired
       THEN ReturnLocked(i, "ErrTTLNotExpired")
       ELSE /\ call' = [call EXCEPT ![i].pc = "guard"]
            /\ UNCHANGED <<disk, mu>>
    /\ UNCHANGED <<now, supVars>>

\* if c.running { ... }; c.running = true; c.lastStart = time.Now(); c.Unlock()
CheckRunning(i) ==
    /\ call[i].pc = "guard"
    /\ IF AlreadyRunning
       THEN ReturnLocked(i, "ErrAlreadyRunning")
       ELSE /\ disk' = [disk EXCEPT !.running = TRUE, !.lastStart = now]
            /\ mu' = 0
            /\ call' = [call EXCEPT ![i].pc = "logical", ![i].marked = TRUE]
    /\ UNCHANGED <<now, supVars>>

\* A wmi.Query failed: Collect reports the error with setStatus and returns
\* it, without going on to the next query.
OnQueryErrNoStatus(i, t) ==
    call' = [call EXCEPT ![i].pc = "done", ![i].queries = @ \cup {t},
                         ![i].ret = IF t = "logical" THEN "ErrLogicalQuery"
                                                     ELSE "ErrPhysicalQuery"]
OnQueryErr(i, t) ==
    call' = [call EXCEPT ![i].pc = "status", ![i].queries = @ \cup {t},
                         ![i].err = t]

\* The rows of a successful query are emitted into the local metrics.
OnQueryOk(i, t, next) ==
    call' = [call EXCEPT ![i].pc = next, ![i].queries = @ \cup {t},
                         ![i].metrics = @ \cup {t}]

\* if c.logical { wmi.Query(Win32_PerfFormattedData_PerfDisk_LogicalDisk) }
QueryLogical(i) ==
    /\ call[i].pc = "logical"
    /\ IF disk.logical
       THEN \E ok \in BOOLEAN :
               IF ok THEN OnQueryOk(i, "logical", "physical")
                     ELSE OnQueryErr(i, "logical")
       ELSE call' = [call EXCEPT ![i].pc = "physical"]
    /\ UNCHANGED <<disk, mu, now, supVars>>

\* if c.physical { wmi.Query(Win32_PerfFormattedData_PerfDisk_PhysicalDisk) }
QueryPhysical(i) ==
    /\ call[i].pc = "physical"
    /\ IF disk.physical
       THEN \E ok \in BOOLEAN :
               IF ok THEN OnQueryOk(i, "physical", "status")
                     ELSE OnQueryErr(i, "physical")
       ELSE call' = [call EXCEPT ![i].pc = "status"]
    /\ UNCHANGED <<disk, mu, now, supVars>>

\* What Collect returns after setStatus(metrics, err).
Wrapped(e) ==
    CASE e = "nil" -> "nil"
      [] e = "logical" -> "ErrLogicalQuery"
      [] e = "physical" -> "ErrPhysicalQuery"

\* c.setStatus(metrics, err) under c's mutex, then return: the run has
\* ended, c.lastEnd is the time and c.running is cleared; the metrics of a
\* run without error become c.lastMetrics.
SetStatus(i) ==
    /\ call[i].pc = "status"
    /\ mu = 0
    /\ \E keep \in BOOLEAN :
          disk' = [disk EXCEPT !.running = FALSE,
                         !.lastEnd = now,
                         !.lastError = call[i].err,
                         !.lastMetrics =
                             IF call[i].err /= "nil" /\ keep
                             THEN @ ELSE call[i].metrics]
    /\ call' = [call EXCEPT ![i].pc = "done",
                            ![i].ret = Wrapped(call[i].err),
                            ![i].statusCalls = @ + 1]
    /\ UNCHANGED <<mu, now, supVars>>

\* Time passes.
DiskTick ==
    /\ now < MaxClock
    /\ now' = now + 1
    /\ UNCHANGED <<diskVars, supVars>>

\* A collector built by NewDiskCollector from any configuration file, in an
\* agent whose supervisor is not running.
DiskInit ==
    /\ agentPc = "new"
    /\ agentResult = "none"
    /\ tasks = [t \in Siblings |-> "idle"]
    /\ groupErr = "none"
    /\ ctxCancelled = FALSE
    /\ gctxCancelled = FALSE
    /\ enabled = FALSE
    /\ configs = Nil
    /\ pc = "idle"
    /\ result = "none"
    /\ lastRefresh = 0
    /\ refreshCheck = FALSE
    /\ rctxCancelled = FALSE
    /\ primaryCN = 0
    /\ cfg = 0
    /\ running = 0
    /\ now = 0
    /\ lastResp = "none"
    /\ refreshedAt = 0
    /\ refreshed = FALSE
    /\ owed = -1
    /\ disk \in {NewDisk(ttl, lg, ph) :
                 ttl \in RunTTLs, lg \in BOOLEAN, ph \in BOOLEAN}
    /\ mu = 0
    /\ call = [i \in Callers |-> NoCall]

DiskNext ==
    \/ \E i \in Callers : CollectLock(i)
    \/ \E i \in Callers : CheckTTL(i)
    \/ \E i \in Callers : CheckRunning(i)
    \/ \E i \in Callers : QueryLogical(i)
    \/ \E i \in Callers : QueryPhysical(i)
    \/ \E i \in Callers : SetStatus(i)
    \/ DiskTick

allVars == <<vars, diskVars>>
DiskSpec == DiskInit /\ [][DiskNext]_allVars

\* ------------------------------------------------------------ properties
FatalResps == {"ConnFatal", "ConnFatalRefresh"}
\* The primary CN looked up in this step has no entry in the loaded configs.
MissingCN == pc = "lookup" /\ pc' /= "lookup" /\ configs /= Nil
             /\ primaryCN \notin DOMAIN configs

\* C1: at most one Connection is running at any time, and the supervisor is
\* never looking up, constructing or starting a Connection while a previous
\* rc.Start has not returned.
C1_AtMostOneConnection ==
    /\ running <= 1
    /\ pc \in {"select", "refresh", "getcfgs", "find", "lookup", "new", "go"}
          => running = 0
C1_Witness == running = 1 /\ pc = "wait" /\ refreshed

\* C2: after rc.Start returned an OpError with Fatal=true the supervisor
\* constructs no further Connection and, once it has returned, has returned
\* a non-nil error.
C2_FatalReturnsError ==
    lastResp \in FatalResps =>
        /\ pc \in {"wait", "select", "done"}
        /\ pc = "done" => result \in StartErrors

\* C3: once the supervisor has returned after a fatal OpError, the agent's
\* group context is cancelled.
C3_FatalCancelsGroupCtx ==
    (lastResp \in FatalResps /\ pc = "done") => GroupCtxDone

\* C4: an iteration that passes the select refreshes exactly when more than
\* RefreshInterval has elapsed since the latest refresh (or the start of the
\* supervisor) or refreshCheck was flagged by the previous iteration.
C4_RefreshExactlyWhenDue ==
    [][(pc = "select" /\ pc' \in {"refresh", "find"}) =>
         ((pc' = "refresh") <=>
            (refreshCheck \/ now - refreshedAt > RefreshInterval))]_vars

\* C5: a failed RefreshReverseConfig or GetReverseConfigs makes Reverse.Start
\* return that error at once: the failure is the last call the supervisor
\* makes, and no Connection runs.
C5_RefreshFailureIsFatal ==
    /\ lastResp = "RefreshErr" => (pc = "done" /\ result = "ErrRefresh")
    /\ lastResp = "GetConfigsErr" => (pc = "done" /\ result = "ErrGetConfigs")
    /\ lastResp \in {"RefreshErr", "GetConfigsErr"} => running = 0
C5_Witness == lastResp = "GetConfigsErr" /\ pc = "done"

\* C6: after 'no owner found' no error is returned, refreshCheck is set, no
\* Connection is constructed, and the next call the supervisor makes is
\* RefreshReverseConfig (it makes none if it finds its context cancelled
\* first and returns nil).
C6_NoOwnerRefreshes ==
    lastResp = "NoOwner" =>
        /\ running = 0
        /\ \/ pc \in {"select", "refresh"} /\ refreshCheck /\ result = "none"
           \/ pc = "done" /\ result = "nil"
C6_Witness == lastResp = "NoOwner" /\ pc = "refresh"

\* C7: a primary CN without an entry in the configs sets refreshCheck and
\* ends the iteration: nothing is returned and no Connection is constructed.
C7_MissingCNContinues ==
    [][MissingCN =>
         /\ refreshCheck' /\ pc' = "select" /\ result' = "none"
         /\ running' = 0 /\ lastResp' = "Primary"]_vars
C7_Witness == lastResp = "Primary" /\ pc = "select" /\ refreshCheck

\* C8 as stated: a primary CN that has no entry in the configs loaded by a
\* refresh in the same iteration makes Reverse.Start return a non-nil error.
C8_MissingCNAfterRefreshFatal ==
    [][(MissingCN /\ refreshed) =>
         (pc' = "done" /\ result' \in StartErrors)]_vars

\* C8 as amended: a primary CN that has no entry in the configs loaded by a
\* refresh in the same iteration is not fatal: the supervisor returns
\* nothing, does not cancel its context, sets refreshCheck and goes on to
\* the next iteration.
C8_MissingCNAfterRefreshRetries ==
    [][(MissingCN /\ refreshed) =>
         /\ pc' = "select" /\ refreshCheck' /\ result' = "none"
         /\ UNCHANGED <<rctxCancelled, groupErr, gctxCancelled>>]_vars
C8_Witness ==
    lastResp = "Primary" /\ pc = "select" /\ refreshCheck /\ refreshed

\* C9: started enabled with nil or empty configs, Reverse.Start returns an
\* error without entering the loop, without any resolver call and without
\* a Connection.
C9_InvalidConfigsRejected ==
    /\ (enabled /\ lastResp = "none" /\ pc \notin {"idle", "start"}
          /\ (configs = Nil \/ NumConfigs(configs) = 0))
       => /\ pc = "done"
          /\ result = (IF configs = Nil THEN "ErrNilConfigs" ELSE "ErrZeroConfigs")
    /\ result \in {"ErrNilConfigs", "ErrZeroConfigs"}
       => (lastResp = "none" /\ running = 0 /\ pc = "done")
C9_Witness ==
    enabled /\ configs /= Nil /\ NumConfigs(configs) = 0 /\ pc = "done"

\* C10: when disabled, Reverse.Start returns nil at once without a resolver
\* call or a Connection, and its return leaves the group context, the
\* group's error and the sibling tasks as they are.
C10_DisabledReturnsNil ==
    /\ [](~enabled =>
            /\ pc \in {"idle", "start", "done"}
            /\ pc = "done" => result = "nil"
            /\ lastResp = "none" /\ running = 0 /\ configs = Nil
            /\ groupErr /= "reverse")
    /\ [][(~enabled /\ pc = "start" /\ pc' = "done") =>
            UNCHANGED <<groupErr, gctxCancelled, ctxCancelled, tasks>>]_vars
C10_Witness ==
    /\ ~enabled /\ pc = "done" /\ ~GroupCtxDone
    /\ \A t \in Siblings : tasks[t] = "running"

\* The positions of Reverse.Start inside its loop.
InLoop == pc \in {"select", "refresh", "getcfgs", "find", "lookup", "new",
                  "go", "wait"}
\* The context handed to Reverse.Start, or the rctx derived from it, is done.
CtxCancelled == rctxCancelled \/ gctxCancelled \/ ctxCancelled
BenignResps == {"ConnNil", "ConnError", "ConnRetry"}

\* C11: after rc.Start returned a non-fatal OpError with RefreshCheck set,
\* refreshCheck is set when the next iteration begins, and when that
\* iteration gets as far as FindPrimaryBrokerInstance, the lookup and the
\* next Connection it has called RefreshReverseConfig exactly once.
C11_RefreshOnceBeforeNextConn ==
    /\ owed = 0 => (pc \in {"wait", "select", "refresh"} /\ refreshCheck)
    /\ (owed >= 0 /\ pc \in {"getcfgs", "find", "lookup", "new", "go"})
          => (owed = 1 /\ (pc /= "getcfgs" => refreshed))
C11_Witness == owed = 1 /\ pc = "go"

\* C12 as stated: a supervisor whose context is cancelled while it is in
\* its loop returns nil when it returns.
C12_CancelReturnsNil ==
    [][(GroupCtxDone /\ InLoop /\ pc' = "done") => result' = "nil"]_vars

\* C12 as amended: a supervisor whose context is cancelled while it is in
\* its loop eventually returns, unless the process panics on a nil r.configs
\* loaded by a refresh; it returns nil, unless a resolver call or
\* connection.New of the iteration in progress fails after the
\* cancellation, whose error it then returns.
C12_CancelEndsSupervisor ==
    /\ (GroupCtxDone /\ InLoop) ~> (pc \in {"done", "panic"})
    /\ [][(GroupCtxDone /\ InLoop /\ pc' = "done") =>
            \/ pc = "select" /\ result' = "nil"
            \/ pc = "refresh" /\ lastResp' = "RefreshErr" /\ result' = "ErrRefresh"
            \/ pc = "getcfgs" /\ lastResp' = "GetConfigsErr" /\ result' = "ErrGetConfigs"
            \/ pc = "find" /\ lastResp' = "FindPrimaryErr" /\ result' = "ErrFindPrimary"
            \/ pc = "new" /\ lastResp' = "ConnNewErr" /\ result' = "ErrConnNew"]_vars
C12_Witness ==
    pc = "done" /\ result = "nil" /\ ctxCancelled /\ groupErr = "none"
      /\ lastResp = "ConnRetry" /\ refreshed

\* C16: Agent.Stop cancels groupCtx and with it the rctx of the supervisor
\* and of its Connection, and once Stop was called while Agent.Start waits
\* for its tasks, Agent.Start eventually returns (a task that panics does
\* not return and ends the process).
C16_StopEndsAgentStart ==
    /\ [][AgentStop => (GroupCtxDone' /\ RctxDone')]_vars
    /\ (ctxCancelled /\ agentPc = "wait") ~> (agentPc = "returned" \/ pc = "panic")
C16_Witness ==
    agentPc = "returned" /\ ctxCancelled /\ agentResult = "none"
      /\ lastResp = "ConnNil"

\* C13 as stated: once in its loop, Reverse.Start returns only when its
\* context was cancelled or a Connection returned a fatal OpError.
C13_ReturnsOnlyOnCancelOrFatal ==
    [][(InLoop /\ pc' = "done") =>
         (GroupCtxDone \/ lastResp \in FatalResps)]_vars

\* C13 as amended: once in its loop, Reverse.Start returns only when it
\* finds its context cancelled at the select (by its caller or after a fatal
\* OpError), returning nil, or when RefreshReverseConfig, GetReverseConfigs,
\* FindPrimaryBrokerInstance (other than 'no owner found') or
\* connection.New fails, returning that error.
C13_ReturnCauses ==
    [][(InLoop /\ pc' = "done") =>
         \/ /\ pc = "select" /\ result' = "nil"
            /\ GroupCtxDone \/ lastResp \in FatalResps
         \/ pc = "refresh" /\ lastResp' = "RefreshErr" /\ result' = "ErrRefresh"
         \/ pc = "getcfgs" /\ lastResp' = "GetConfigsErr" /\ result' = "ErrGetConfigs"
         \/ pc = "find" /\ lastResp' = "FindPrimaryErr" /\ result' = "ErrFindPrimary"
         \/ pc = "new" /\ lastResp' = "ConnNewErr" /\ result' = "ErrConnNew"]_vars
C13_Witness == pc = "done" /\ result = "ErrFindPrimary" /\ ~ctxCancelled

\* C14: a task that returns a non-nil error cancels the group context and
\* the first such error is the one Agent.Start returns, after every task
\* has returned; a task that returns nil cancels nothing.
C14_FirstErrorCancelsGroup ==
    /\ []((result \in StartErrors \/ \E t \in Siblings : tasks[t] = "err")
            => (gctxCancelled /\ groupErr /= "none"))
    /\ [](groupErr = "reverse" => result \in StartErrors)
    /\ [](groupErr \in Siblings => tasks[groupErr] = "err")
    /\ [](agentPc = "returned" =>
            /\ agentResult = groupErr
            /\ pc = "done"
            /\ \A t \in Siblings : tasks[t] \in {"nil", "err"})
    /\ [][groupErr /= "none" => groupErr' = groupErr]_vars
    /\ [][(gctxCancelled' /\ ~gctxCancelled) =>
            (groupErr' /= groupErr \/ agentPc' = "returned")]_vars
C14_Witness ==
    /\ agentPc = "returned" /\ agentResult \in Siblings /\ result = "nil"
    /\ \E t \in Siblings : tasks[t] = "err" /\ t /= groupErr

C17_ConfigsReplacedOnRefreshOnly ==
    /\ [][configs' /= configs =>
            (pc = "getcfgs" /\ pc' = "find" /\ lastResp' = "GetConfigsOk")]_vars
    /\ [](pc \in {"new", "go", "wait"} =>
            /\ configs /= Nil
            /\ primaryCN \in DOMAIN configs
            /\ cfg = configs[primaryCN])
C17_Witness ==
    pc = "go" /\ refreshed /\ NumConfigs(configs) = 2 /\ cfg = 2

\* C18: when rc.Start returned an OpError with Fatal and RefreshCheck both
\* set, rctx is cancelled, refreshCheck is not set, and the supervisor makes
\* no further call: it only finishes wg.Wait and returns at the select.
C18_FatalBeforeRefreshCheck ==
    /\ [](lastResp = "ConnFatalRefresh" =>
            /\ rctxCancelled /\ ~refreshCheck
            /\ pc \in {"wait", "select", "done"})
    /\ [][lastResp = "ConnFatalRefresh" => lastResp' = lastResp]_vars
C18_Witness == lastResp = "ConnFatalRefresh" /\ pc = "done"

\* C19: whenever the supervisor is about to call FindPrimaryBrokerInstance
\* or to index r.configs, r.configs is non-nil and non-empty.
C19_ConfigsValidWhenUsed ==
    pc \in {"find", "lookup"} => (configs /= Nil /\ NumConfigs(configs) > 0)

\* C20 as stated: once the context of the supervisor is cancelled, the
\* supervisor makes no resolver call and constructs or starts no Connection.
C20_NoCallAfterCancel ==
    [][(GroupCtxDone /\ InLoop) =>
         (lastResp' = lastResp \/ running' < running)]_vars

\* C20 as amended: a supervisor that finds its context cancelled at the
\* select at the top of an iteration makes no resolver call and constructs
\* or starts no Connection from then on: it returns.  (A cancellation that
\* arrives later in the iteration is seen at the next select only.)
C20_NoCallAfterCancelSeen ==
    /\ [][(pc = "select" /\ CtxCancelled) =>
            (pc' \in {"select", "done"} /\ lastResp' = lastResp
               /\ running' = running)]_vars
    /\ [][pc = "done" =>
            (pc' = "done" /\ lastResp' = lastResp /\ running' = running)]_vars
C20_Witness ==
    pc = "done" /\ result = "nil" /\ ctxCancelled /\ lastResp = "ConnNil"

\* ---------------------------------------------------------- Disk.Collect
\* The calls that passed the running guard and have not yet reported their
\* status.
PastGuard == {i \in Callers : call[i].pc \in {"logical", "physical", "status"}}

\* C21: however concurrent Collect calls interleave, at most one of them is
\* past the running guard at a time; a call that finds running = true
\* returns ErrAlreadyRunning, having issued no WMI query, and leaves
\* running, lastStart and the collected metrics as they were.
C21_OneCollectAtATime ==
    /\ [](Cardinality(PastGuard) <= 1)
    /\ [](\A i \in Callers :
             call[i].ret = "ErrAlreadyRunning"
             => call[i].queries = {} /\ ~call[i].marked)
    /\ [][\A i \in Callers :
             call[i].pc = "guard" /\ call'[i].pc /= "guard" /\ disk.running
             => /\ call'[i].pc = "done"
                /\ call'[i].ret = "ErrAlreadyRunning"
                /\ call'[i].queries = {}
                /\ disk'.running = disk.running
                /\ disk'.lastStart = disk.lastStart
                /\ disk'.lastMetrics = disk.lastMetrics]_allVars

C21_Witness ==
    \E i, j \in Callers :
        /\ call[i].pc = "done" /\ call[i].ret = "ErrAlreadyRunning"
        /\ call[j].pc = "physical" /\ call[j].queries = {"logical"}

\* C22: with runTTL > 0, a call made less than runTTL after the last
\* collection ended returns ErrTTLNotExpired without setting running and
\* without a WMI query; the TTL test comes before the running guard, which
\* only calls that passed the TTL test reach; with runTTL = 0 no call is
\* rejected by the TTL test.
C22_TTLRejectsFirst ==
    /\ [][\A i \in Callers :
             /\ call[i].pc = "ttl" /\ call'[i].pc /= "ttl"
             /\ disk.runTTL > 0
             /\ disk.lastEnd /= ZeroTime
             /\ now - disk.lastEnd < disk.runTTL
             => /\ call'[i].pc = "done"
                /\ call'[i].ret = "ErrTTLNotExpired"
                /\ call'[i].queries = {}
                /\ ~call'[i].marked
                /\ disk' = disk]_allVars
    /\ [](\A i \in Callers :
             call[i].pc = "guard"
             => ~(disk.runTTL > 0 /\ disk.lastEnd /= ZeroTime
                  /\ now - disk.lastEnd < disk.runTTL))
    /\ [](\A i \in Callers :
             call[i].ret = "ErrTTLNotExpired"
             => disk.runTTL /= 0 /\ call[i].queries = {} /\ ~call[i].marked)

C22_Witness ==
    \E i \in Callers :
        /\ call[i].pc = "done" /\ call[i].ret = "ErrTTLNotExpired"
        /\ now - disk.lastEnd = disk.runTTL - 1

\* C23: a Collect call that set running = true calls setStatus exactly once,
\* and does so before it returns, whether the logical query failed, the
\* physical query failed or both succeeded, so that no call that marked
\* the collector running returns without reporting its status.  After a
\* failed logical query the physical query is not issued.
C23_StatusOncePerRun ==
    /\ [](\A i \in Callers :
             call[i].marked
             => call[i].statusCalls = (IF call[i].pc = "done" THEN 1 ELSE 0))
    /\ [](\A i \in Callers : ~call[i].marked => call[i].statusCalls = 0)
    /\ [](\A i \in Callers :
             call[i].err = "logical" \/ call[i].ret = "ErrLogicalQuery"
             => "physical" \notin call[i].queries)

C23_Witness ==
    \E i, j \in Callers :
        /\ call[i].pc = "done" /\ call[i].ret = "ErrLogicalQuery"
        /\ call[i].statusCalls = 1
        /\ call[j].pc = "done" /\ call[j].ret = "ErrPhysicalQuery"
        /\ call[j].statusCalls = 1
        /\ ~disk.running

TypeOK ==
    /\ agentPc \in {"new", "wait", "returned"}
    /\ tasks \in [Siblings -> {"idle", "running", "nil", "err"}]
    /\ groupErr \in {"none", "reverse"} \cup Siblings
    /\ configs \in ConfigsPtr
    /\ pc \in {"idle", "start", "select", "refresh", "getcfgs", "find",
               "lookup", "new", "go", "wait", "done", "panic"}
    /\ result \in {"none", "nil"} \cup StartErrors
    /\ running \in 0..1
    /\ now \in 0..MaxTime
====
